---- MODULE Spec2Model ----
(***************************************************************************)
(* A model of mm/zswap.c: one swap area (type 0) with its rbtree index,    *)
(* its LRU list, its lock and its entries, and the frontswap hooks store,  *)
(* load, invalidate_page, invalidate_area together with the writeback      *)
(* engine, run by concurrent threads.                                      *)
(*                                                                         *)
(* The rbtree and the LRU are modelled at pointer level (rb_node and       *)
(* list_head fields), so that an rb_erase of a node that is no longer in   *)
(* the tree, or a list_add of a node that is already linked, does to the   *)
(* pointers exactly what the kernel's code does.  With the two offsets of  *)
(* Offsets a tree has at most two nodes on a path and the kernel's         *)
(* rebalancing never runs; rbx records any step that would leave this      *)
(* fragment.                                                               *)
(***************************************************************************)
EXTENDS Integers, Sequences, FiniteSets, TLC

\* ------------------------------------------------------------------ bounds
NThreads == 2
MaxEntries == 3
NCPU == 1
TotalRam == 4
MaxWbFail == 1
MaxKmemFail == 1
MaxCalls == 3
MaxCallsSeq == 4
MaxCallsPressure == 1

\* ------------------------------------------------------- program constants
PAGE_SIZE == 4096
ZSWAP_MAX_OUTSTANDING_FLUSHES == 64
ZSWAP_TMPPAGE_POOL_PAGES == 16
WRITEBACK_NR == 16
DEFAULT_MAX_COMPRESSION_RATIO == 80
DEFAULT_MAX_POOL_PERCENT == 50
ENODEV == 19
ENOMEM == 12
EINVAL == 22
E2BIG == 7
EEXIST == 17

Threads == 1..NThreads
Entries == 1..MaxEntries
NULL == 0
HEAD == 0
Nodes == 0..MaxEntries
Offsets == {0, 1}
Pages == {"PA", "PB", "PC"}
Garbage == "garbage"
None == "none"

\* ------------------------------------------------------------------- codec
\* Length of the compressed stream the codec produces for a page.
CompLen(p) ==
    CASE p = "PA" -> 40
      [] p = "PB" -> 3317
      [] OTHER    -> 4100

\* crypto_comp_compress: the stream for page p, dlen bytes long.
Compress(p) == [body |-> p, n |-> CompLen(p)]

\* memcpy(buf, dst, dlen): the first dlen bytes of a stream.
MemcpyNone(c, dlen) == [body |-> c.body, n |-> 0]
Memcpy(c, dlen) == [body |-> c.body, n |-> IF dlen < c.n THEN dlen ELSE c.n]

\* crypto_comp_decompress of the first slen bytes of src: the page comes
\* back only from its complete stream.
DecompressBad(src, slen) == "PA"
Decompress(src, slen) ==
    IF src.n >= slen /\ slen = CompLen(src.body) THEN src.body ELSE Garbage

NoData == [body |-> None, n |-> 0]

\* The admission test of zswap_frontswap_store.
RatioRejectsBad(dlen, ratio) == dlen * 100 > ratio * PAGE_SIZE
RatioRejects(dlen, ratio) == (dlen * 100) \div PAGE_SIZE > ratio

\* --------------------------------------------------------------- list_head
\* A list is [next, prev], functions on Nodes; node 0 is tree->lru.
INIT_LIST_HEAD_tail(l, n) ==
    [next |-> [l.next EXCEPT ![n] = HEAD, ![l.prev[HEAD]] = n],
     prev |-> [l.prev EXCEPT ![n] = l.prev[HEAD], ![HEAD] = n]]

INIT_LIST_HEAD(l, n) ==
    [next |-> [l.next EXCEPT ![n] = n], prev |-> [l.prev EXCEPT ![n] = n]]

list_empty(l, n) == l.next[n] = n

\* __list_add(new, prev, next), assignment by assignment.
list_add_between(l, new, prev, next) ==
    LET p1 == [l.prev EXCEPT ![next] = new]
        n1 == [l.next EXCEPT ![new] = next]
        p2 == [p1 EXCEPT ![new] = prev]
        n2 == [n1 EXCEPT ![prev] = new]
    IN [next |-> n2, prev |-> p2]

list_add_last(l, new, head) == list_add_between(l, new, l.prev[head], head)
list_add(l, new, head) == list_add_between(l, new, head, l.next[head])

list_add_tail(l, new, head) == list_add_between(l, new, l.prev[head], head)

\* list_del_init(entry): __list_del(entry->prev, entry->next), then
\* INIT_LIST_HEAD(entry).
list_del_init(l, e) ==
    LET p == l.prev[e]
        n == l.next[e]
        p1 == [l.prev EXCEPT ![n] = p]
        n1 == [l.next EXCEPT ![p] = n]
    IN INIT_LIST_HEAD([next |-> n1, prev |-> p1], e)

\* if (!list_empty(&entry->lru)) list_del_init(&entry->lru);
lru_remove(l, e) == IF list_empty(l, e) THEN l ELSE list_del_init(l, e)

\* The entries met walking next pointers from the head, as a sequence.
RECURSIVE LruWalk(_, _, _)
LruWalk(l, n, fuel) ==
    IF n = HEAD \/ fuel = 0 THEN <<>>
    ELSE <<n>> \o LruWalk(l, l.next[n], fuel - 1)

LruSeq(l) == LruWalk(l, l.next[HEAD], MaxEntries + 1)

OnLru(l, e) == \E i \in 1..Len(LruSeq(l)) : LruSeq(l)[i] = e

\* ------------------------------------------------------------------ rbtree
\* A tree is [root, parent, red, left, right]; the last four are the
\* rb_node fields of each entry.
RECURSIVE rb_search_from(_, _, _, _, _)
rb_search_from(rb, off, node, offset, fuel) ==
    IF node = NULL \/ fuel = 0 THEN NULL
    ELSE IF off[node] > offset THEN rb_search_from(rb, off, rb.left[node], offset, fuel - 1)
    ELSE IF off[node] < offset THEN rb_search_from(rb, off, rb.right[node], offset, fuel - 1)
    ELSE node

zswap_rb_search(rb, off, offset) ==
    rb_search_from(rb, off, rb.root, offset, MaxEntries + 1)

\* The walk of zswap_rb_insert: the duplicate it meets, or the parent and
\* the side of the link where the new node goes.
RECURSIVE rb_link_from(_, _, _, _, _, _, _)
rb_link_from(rb, off, node, parent, side, offset, fuel) ==
    IF node = NULL \/ fuel = 0 THEN [dup |-> NULL, parent |-> parent, side |-> side]
    ELSE IF off[node] > offset
         THEN rb_link_from(rb, off, rb.left[node], node, "left", offset, fuel - 1)
    ELSE IF off[node] < offset
         THEN rb_link_from(rb, off, rb.right[node], node, "right", offset, fuel - 1)
    ELSE [dup |-> node, parent |-> parent, side |-> side]

rb_find_link(rb, off, offset) ==
    rb_link_from(rb, off, rb.root, NULL, "root", offset, MaxEntries + 1)

\* rb_link_node + rb_insert_color for a link whose parent is NULL or black.
rb_link(rb, e, lk) ==
    LET linked ==
            [rb EXCEPT !.parent[e] = lk.parent, !.red[e] = TRUE,
                       !.left[e] = NULL, !.right[e] = NULL]
    IN IF lk.parent = NULL
       THEN [linked EXCEPT !.root = e, !.red[e] = FALSE]
       ELSE IF lk.side = "left"
            THEN [linked EXCEPT !.left[lk.parent] = e]
            ELSE [linked EXCEPT !.right[lk.parent] = e]

\* rb_insert_color would have to rotate: the parent is red.
rb_link_rotates(rb, lk) == lk.parent # NULL /\ rb.red[lk.parent]

\* __rb_change_child(old, new, parent, root)
rb_change_child(rb, old, new, parent) ==
    IF parent # NULL
    THEN IF rb.left[parent] = old
         THEN [rb EXCEPT !.left[parent] = new]
         ELSE [rb EXCEPT !.right[parent] = new]
    ELSE [rb EXCEPT !.root = new]

\* rb_erase(node, root) for a node with at most one child: whatever the
\* node's fields say, whether or not the node is still linked in the tree.
rb_erase_noop(rb, e) == rb
rb_erase(rb, e) ==
    LET child == IF rb.left[e] = NULL THEN rb.right[e] ELSE rb.left[e]
        parent == rb.parent[e]
        r1 == rb_change_child(rb, e, child, parent)
    IN IF child # NULL
       THEN [r1 EXCEPT !.parent[child] = parent, !.red[child] = rb.red[e]]
       ELSE r1

\* rb_erase would take the two-children path or call the rebalancing.
rb_erase_rebalances(rb, e) ==
    \/ rb.left[e] # NULL /\ rb.right[e] # NULL
    \/ (rb.left[e] # NULL \/ rb.right[e] # NULL) /\ rb.red[e]
    \/ rb.left[e] = NULL /\ rb.right[e] = NULL /\ ~rb.red[e] /\ rb.parent[e] # NULL

\* rb_first: the leftmost node.
RECURSIVE rb_leftmost(_, _, _)
rb_leftmost(rb, n, fuel) ==
    IF n = NULL \/ fuel = 0 THEN n
    ELSE IF rb.left[n] = NULL THEN n
    ELSE rb_leftmost(rb, rb.left[n], fuel - 1)

rb_first(rb) == rb_leftmost(rb, rb.root, MaxEntries + 1)

\* The nodes reachable from the root.
RECURSIVE rb_reach(_, _, _)
rb_reach(rb, n, fuel) ==
    IF n = NULL \/ fuel = 0 THEN {}
    ELSE {n} \cup rb_reach(rb, rb.left[n], fuel - 1) \cup rb_reach(rb, rb.right[n], fuel - 1)

InIndex(rb, e) == e \in rb_reach(rb, rb.root, MaxEntries + 1)

Min(a, b) == IF a < b THEN a ELSE b

\* ------------------------------------------------------------------- state
VARIABLES
    tree,           \* zswap_trees[0] != NULL
    nalloc,         \* entry records handed out by zswap_entry_cache_alloc
    ent,            \* the entry records: offset, length, refcount, handle data
    nfree,          \* how often each record (and its handle) has been freed
    rb,             \* tree->rbroot and the rb_node fields
    lru,            \* tree->lru and the list_head fields
    lock,           \* holder of tree->lock, 0 when free
    th,             \* per thread: position and locals
    calls,          \* per thread: the calls it may still start
    stored_pages,   \* zswap_stored_pages
    outstanding,    \* zswap_outstanding_writebacks
    stats,          \* the unprotected u64 statistics
    tmpfree,        \* frames on zswap_tmppage_list
    max_ratio,      \* zswap_max_compression_ratio
    swp,            \* per offset: the page of the swap cache or the device
    pool,           \* zswap_pool_pages, the limit, the stores inside zs_malloc
    flush,          \* per caller: the writeback loop seen from the in-flight counter
    rbx,            \* an rbtree step left the modelled fragment
    gh              \* history: what was stored, admitted, invalidated

vars == <<tree, nalloc, ent, nfree, rb, lru, lock, th, calls, stored_pages,
          outstanding, stats, tmpfree, max_ratio, swp, pool, flush, rbx, gh>>

IdleThread ==
    [pc |-> "idle", op |-> "none", off |-> 0, page |-> None, new |-> NULL,
     ent |-> NULL, ret |-> 0, dst |-> None, i |-> 0, wbret |-> 0, rc |-> 0,
     tmp |-> FALSE, reg |-> 0, buf |-> NoData, dlen |-> 0, cpu |-> 0,
     exp |-> None, inv |-> FALSE, cnt |-> "none", dups |-> 0,
     raced |-> FALSE, tried |-> {}, freed_nr |-> 0]

NoEntry == [offset |-> 0, length |-> 0, refcount |-> 0, handle |-> NoData]

InitCore ==
    /\ tree = FALSE
    /\ nalloc = 0
    /\ ent = [e \in Entries |-> NoEntry]
    /\ nfree = [e \in Entries |-> 0]
    /\ rb = [root |-> NULL,
             parent |-> [e \in Entries |-> NULL],
             red |-> [e \in Entries |-> FALSE],
             left |-> [e \in Entries |-> NULL],
             right |-> [e \in Entries |-> NULL]]
    /\ lru = [next |-> [n \in Nodes |-> n], prev |-> [n \in Nodes |-> n]]
    /\ lock = 0
    /\ th = [t \in Threads |-> IdleThread]
    /\ stored_pages = 0
    /\ outstanding = 0
    /\ stats = [duplicate_entry |-> 0, reject_compress_poor |-> 0,
                reject_tmppage_fail |-> 0, reject_zsmalloc_fail |-> 0,
                reject_kmemcache_fail |-> 0, saved_by_writeback |-> 0]
    /\ tmpfree = ZSWAP_TMPPAGE_POOL_PAGES
    /\ max_ratio = DEFAULT_MAX_COMPRESSION_RATIO
    /\ swp = [o \in Offsets |-> [st |-> "none", data |-> None, ref |-> 0]]
    /\ pool = [pages |-> 0, percent |-> DEFAULT_MAX_POOL_PERCENT,
               cpu1 |-> 0, cpu2 |-> 0, tmpw |-> 0, tmp1 |-> 0, tmp2 |-> 0]
    /\ flush = [c \in Threads |-> [pc |-> "idle", i |-> 0]]
    /\ rbx = FALSE
    /\ gh = [page |-> [e \in Entries |-> None],
             ratio |-> [e \in Entries |-> 0],
             last |-> [o \in Offsets |-> NULL],
             inval |-> [o \in Offsets |-> FALSE],
             wbfail |-> 0,
             hipct |-> DEFAULT_MAX_POOL_PERCENT,
             purged |-> {},
             mru |-> << >>]

Init == InitCore /\ calls = [t \in Threads |-> MaxCalls]

Off == [e \in Entries |-> ent[e].offset]

\* The page the area owes for offset o: that of the last store there, once it
\* has returned 0, unless the offset was invalidated or the entry handed to
\* the swap cache since.
Owed(o) ==
    IF gh.last[o] = NULL \/ \E t \in Threads : th[t].new = gh.last[o]
    THEN None
    ELSE gh.page[gh.last[o]]

\* Offset o has been invalidated: an invalidate_page or invalidate_area on it
\* has returned and no store has installed an entry there since.
Invalidated(o) ==
    /\ gh.inval[o]
    /\ \A t \in Threads :
          th[t].pc = "done" \/ th[t].op \notin {"invalidate_page", "invalidate_area"}
          \/ (th[t].op = "invalidate_page" /\ th[t].off # o)

\* ----------------------------------------------------------------- helpers
Me(t) == th[t]

\* Thread t starts one more call: it is in no call (its last one, if any,
\* has returned and still shows its result).
Call(t) ==
    /\ Me(t).pc \in {"idle", "done"}
    /\ calls[t] > 0
    /\ calls' = [calls EXCEPT ![t] = @ - 1]

\* What a thread shows when its operation returns: the call and its result.
Returned(r, ret) ==
    [IdleThread EXCEPT !.pc = "done", !.op = r.op, !.off = r.off, !.page = r.page, !.ret = ret,
                       !.dst = r.dst, !.exp = r.exp, !.inv = r.inv, !.dups = r.dups,
                       !.raced = r.raced, !.ent = IF r.raced THEN r.ent ELSE NULL,
                       !.cpu = r.cpu, !.tmp = r.tmp]

FreeCount(n) == Min(n + 1, 2)

\* zswap_entry_get / zswap_entry_put on the record of entry e.
zswap_entry_get(en, e) == [en EXCEPT ![e].refcount = @ + 1]
zswap_entry_put_twice(en, e) == [en EXCEPT ![e].refcount = @ - 2]
zswap_entry_put(en, e) == [en EXCEPT ![e].refcount = @ - 1]

\* Reading the handle of an entry: its bytes, or anything once it was freed.
HandleReads(e) ==
    IF nfree[e] = 0
    THEN {Decompress(ent[e].handle, ent[e].length)}
    ELSE {Decompress(ent[e].handle, ent[e].length), Garbage}

\* ------------------------------------------------------ freed entry records
\* kmem_cache_free(zswap_entry_cache, entry) and zs_free(pool, handle): the
\* memory is gone.  As long as some pointer still leads to the record (a
\* thread's local, the tree, the list, a field of another record) its stale
\* contents stay readable; once nothing leads to it the contents are
\* forgotten.
\* The sequence q without e; and q with e moved to its end (gh.mru lists the
\* entries by their last store or load hit, the oldest first).
Without(q, e) == SelectSeq(q, LAMBDA x : x # e)
Touch(q, e) == Append(Without(q, e), e)

Referenced(e, S) ==
    \/ S.rb.root = e
    \/ \E x \in Entries \ {e} :
          S.rb.left[x] = e \/ S.rb.right[x] = e \/ S.rb.parent[x] = e
    \/ \E n \in Nodes \ {e} : S.lru.next[n] = e \/ S.lru.prev[n] = e
    \/ \E t \in Threads : S.th[t].ent = e \/ S.th[t].new = e
    \/ \E o \in Offsets : S.gh.last[o] = e

Blank(e, S) ==
    [S EXCEPT !.ent[e] = NoEntry,
              !.rb.parent[e] = NULL, !.rb.red[e] = FALSE,
              !.rb.left[e] = NULL, !.rb.right[e] = NULL,
              !.lru.next[e] = e, !.lru.prev[e] = e,
              !.gh.page[e] = None, !.gh.ratio[e] = 0,
              !.gh.purged = @ \ {e},
              !.gh.mru = Without(@, e)]

RECURSIVE ForgetFrom(_, _, _)
ForgetFrom(S, e, rounds) ==
    IF rounds = 0 THEN S
    ELSE IF e > MaxEntries THEN ForgetFrom(S, 1, rounds - 1)
    ELSE IF S.nfree[e] > 0 /\ ~Referenced(e, S)
         THEN ForgetFrom(Blank(e, S), e + 1, rounds)
         ELSE ForgetFrom(S, e + 1, rounds)

\* S is [ent, rb, lru, gh, nfree, th] as the step leaves them.
Forget(S) == ForgetFrom(S, 1, 2)

Freed(S) ==
    LET F == Forget(S)
    IN /\ ent' = F.ent
       /\ rb' = F.rb
       /\ lru' = F.lru
       /\ gh' = F.gh
       /\ nfree' = F.nfree
       /\ th' = F.th

Now == [ent |-> ent, rb |-> rb, lru |-> lru, gh |-> gh, nfree |-> nfree, th |-> th]

\* ------------------------------------------------------ zswap_frontswap_init
FrontswapInit ==
    /\ ~tree
    /\ tree' = TRUE
    /\ UNCHANGED <<nalloc, ent, nfree, rb, lru, lock, th, calls, stored_pages,
                   outstanding, stats, tmpfree, max_ratio, swp, pool, flush, rbx, gh>>

\* ----------------------------------------------------- zswap_frontswap_store
\* Entry to the first zs_malloc: the area test, the entry record, the
\* compression into the per-CPU buffer and the admission test.
StoreBegin(t, o, p, f) ==
    /\ Call(t)
    /\ LET me == [IdleThread EXCEPT !.op = "store", !.off = o, !.page = p]
       IN \/ /\ ~tree
             /\ th' = [th EXCEPT ![t] = Returned(me, -ENODEV)]
             /\ UNCHANGED <<nalloc, ent, lru, gh>>
          \/ /\ tree
             /\ f = "kmem"
             /\ stats.reject_kmemcache_fail < MaxKmemFail
             /\ th' = [th EXCEPT ![t] =
                          [me EXCEPT !.pc = "s_reject", !.ret = -ENOMEM,
                                     !.cnt = "reject_kmemcache_fail",
                                     !.reg = stats.reject_kmemcache_fail]]
             /\ UNCHANGED <<nalloc, ent, lru, gh>>
          \/ /\ tree
             /\ f # "kmem"
             /\ nalloc < MaxEntries
             /\ LET e == nalloc + 1
                    c == Compress(p)
                    got == [me EXCEPT !.new = e, !.cpu = 1]
                IN /\ nalloc' = e
                   /\ ent' = [ent EXCEPT ![e] = [NoEntry EXCEPT !.refcount = 1]]
                   /\ lru' = INIT_LIST_HEAD(lru, e)
                   /\ gh' = [gh EXCEPT !.ratio[e] = max_ratio]
                   /\ \/ /\ f = "codec"
                         /\ th' = [th EXCEPT ![t] =
                                      [got EXCEPT !.pc = "s_reject", !.ret = -EINVAL]]
                      \/ /\ f = "ok"
                         /\ RatioRejects(c.n, max_ratio)
                         /\ th' = [th EXCEPT ![t] =
                                      [got EXCEPT !.pc = "s_reject", !.ret = -E2BIG,
                                                  !.buf = c, !.dlen = c.n,
                                                  !.cnt = "reject_compress_poor",
                                                  !.reg = stats.reject_compress_poor]]
                      \/ /\ f = "ok"
                         /\ ~RatioRejects(c.n, max_ratio)
                         /\ th' = [th EXCEPT ![t] =
                                      [got EXCEPT !.pc = "s_malloc",
                                                  !.buf = c, !.dlen = c.n]]
    /\ UNCHANGED <<tree, nfree, rb, lock, stored_pages, outstanding, stats,
                   tmpfree, max_ratio, swp, pool, flush, rbx>>

\* populate entry: offset, handle (with the bytes copied in), length.
PopulatePinned(en, e, o, data, dlen) ==
    [en EXCEPT ![e].offset = o, ![e].handle = Memcpy(data, dlen), ![e].length = dlen,
               ![e].refcount = @ + 1]
Populate(en, e, o, data, dlen) ==
    [en EXCEPT ![e].offset = o, ![e].handle = Memcpy(data, dlen), ![e].length = dlen]

\* The first zs_malloc, and on its failure the scratch frame.
StoreMalloc(t, ok) ==
    /\ Me(t).pc = "s_malloc"
    /\ \/ /\ ok
          /\ ent' = Populate(ent, Me(t).new, Me(t).off, Me(t).buf, Me(t).dlen)
          /\ th' = [th EXCEPT ![t].pc = "s_map", ![t].cpu = @ - 1]
          /\ UNCHANGED tmpfree
       \/ /\ ~ok
          /\ tmpfree = 0
          /\ th' = [th EXCEPT ![t].pc = "s_reject", ![t].ret = -ENOMEM,
                              ![t].cnt = "reject_tmppage_fail",
                              ![t].reg = stats.reject_tmppage_fail]
          /\ UNCHANGED <<ent, tmpfree>>
       \/ /\ ~ok
          /\ tmpfree > 0
          /\ tmpfree' = tmpfree - 1
          /\ th' = [th EXCEPT ![t].pc = "w_check", ![t].tmp = TRUE, ![t].cpu = @ - 1,
                              ![t].buf = Memcpy(Me(t).buf, Me(t).dlen), ![t].i = 0,
                              ![t].freed_nr = 0]
          /\ UNCHANGED ent
    /\ UNCHANGED <<tree, nalloc, nfree, rb, lru, lock, calls, stored_pages,
                   outstanding, stats, max_ratio, swp, pool, flush, rbx, gh>>

\* The second zs_malloc, after the writeback pass.
StoreRetry(t, ok) ==
    /\ Me(t).pc = "s_retry"
    /\ \/ /\ ~ok
          /\ th' = [th EXCEPT ![t].pc = "s_reject", ![t].ret = -ENOMEM,
                              ![t].cnt = "reject_zsmalloc_fail",
                              ![t].reg = stats.reject_zsmalloc_fail]
       \/ /\ ok
          /\ th' = [th EXCEPT ![t].pc = "s_saved", ![t].reg = stats.saved_by_writeback]
    /\ UNCHANGED <<tree, nalloc, ent, nfree, rb, lru, lock, calls, stored_pages,
                   outstanding, stats, tmpfree, max_ratio, swp, pool, flush, rbx, gh>>

\* zswap_saved_by_writeback++ completes; copy out of the scratch frame.
StoreSaved(t) ==
    /\ Me(t).pc = "s_saved"
    /\ stats' = [stats EXCEPT !.saved_by_writeback = Me(t).reg + 1]
    /\ ent' = Populate(ent, Me(t).new, Me(t).off, Me(t).buf, Me(t).dlen)
    /\ tmpfree' = tmpfree + 1
    /\ th' = [th EXCEPT ![t].pc = "s_map", ![t].tmp = FALSE]
    /\ UNCHANGED <<tree, nalloc, nfree, rb, lru, lock, calls, stored_pages,
                   outstanding, max_ratio, swp, pool, flush, rbx, gh>>

\* module_param_named(max_compression_ratio, zswap_max_compression_ratio,
\* uint, 0644): a write to the parameter file, at any moment.
RatioValues == {60, 80}
SetRatio(v) ==
    /\ v # max_ratio
    /\ max_ratio' = v
    /\ UNCHANGED <<tree, nalloc, ent, nfree, rb, lru, lock, th, calls, stored_pages,
                   outstanding, stats, tmpfree, swp, pool, flush, rbx, gh>>

\* freepage / reject: the statistic's write, the scratch frame or the per-CPU
\* buffer, the entry record.
\* freepage: if (writeback_attempted) zswap_tmppage_free(tmppage);
\* else put_cpu_var(zswap_dstmem); the reject label below it releases nothing.
FreepageKeeps(r) == r
FreepageReleases(r) ==
    IF r.new = NULL THEN r
    ELSE IF r.tmp THEN [r EXCEPT !.tmp = FALSE]
    ELSE [r EXCEPT !.cpu = @ - 1]

StoreReject(t) ==
    /\ Me(t).pc = "s_reject"
    /\ stats' = IF Me(t).cnt = "none" THEN stats
                ELSE [stats EXCEPT ![Me(t).cnt] = Me(t).reg + 1]
    /\ tmpfree' = IF Me(t).new # NULL /\ Me(t).tmp THEN tmpfree + 1 ELSE tmpfree
    /\ Freed([Now EXCEPT
                 !.nfree = IF Me(t).new = NULL THEN nfree
                           ELSE [nfree EXCEPT ![Me(t).new] = FreeCount(@)],
                 !.th = [th EXCEPT ![t] = Returned(FreepageReleases(Me(t)), Me(t).ret)]])
    /\ UNCHANGED <<tree, nalloc, lock, calls, stored_pages,
                   outstanding, max_ratio, swp, pool, flush, rbx>>

\* The do-while around zswap_rb_insert: every duplicate met is erased,
\* unlinked, put and, at refcount 0, freed; then the new node is linked.
RECURSIVE MapLoop(_, _, _, _)
MapLoop(s, e, o, fuel) ==
    LET lk == rb_find_link(s.rb, [x \in Entries |-> s.ent[x].offset], o)
        d == lk.dup
    IN IF d = NULL \/ fuel = 0
       THEN [s EXCEPT !.rb = rb_link(s.rb, e, lk),
                      !.x = s.x \/ rb_link_rotates(s.rb, lk) \/ d # NULL]
       ELSE LET en == zswap_entry_put(s.ent, d)
                gone == en[d].refcount = 0
            IN MapLoop([rb |-> rb_erase(s.rb, d),
                        lru |-> lru_remove(s.lru, d),
                        ent |-> en,
                        nfree |-> IF gone THEN [s.nfree EXCEPT ![d] = FreeCount(@)]
                                  ELSE s.nfree,
                        sp |-> IF gone THEN s.sp - 1 ELSE s.sp,
                        dups |-> s.dups + 1,
                        x |-> s.x \/ rb_erase_rebalances(s.rb, d)],
                       e, o, fuel - 1)

StoreMap(t) ==
    /\ Me(t).pc = "s_map"
    /\ lock = 0
    /\ LET e == Me(t).new
           o == Me(t).off
           s == MapLoop([rb |-> rb, lru |-> lru, ent |-> ent, nfree |-> nfree,
                         sp |-> stored_pages, dups |-> 0, x |-> rbx],
                        e, o, MaxEntries + 1)
       IN /\ Freed([rb |-> s.rb,
                    lru |-> list_add_tail(s.lru, e, HEAD),
                    ent |-> s.ent,
                    nfree |-> s.nfree,
                    gh |-> [gh EXCEPT !.page[e] = Me(t).page, !.last[o] = e,
                                      !.inval[o] = FALSE,
                                      !.mru = Touch(@, e)],
                    th |-> [th EXCEPT ![t].pc = "s_unlock", ![t].dups = s.dups]])
          /\ stored_pages' = s.sp
          /\ stats' = [stats EXCEPT !.duplicate_entry = @ + s.dups]
          /\ rbx' = s.x
    /\ lock' = t
    /\ UNCHANGED <<tree, nalloc, calls, outstanding, tmpfree, max_ratio, swp,
                   pool, flush>>

\* atomic_inc(&zswap_stored_pages); return 0
StoreStat(t) ==
    /\ Me(t).pc = "s_stat"
    /\ stored_pages' = stored_pages + 1
    /\ th' = [th EXCEPT ![t] = Returned(Me(t), 0)]
    /\ UNCHANGED <<tree, nalloc, ent, nfree, rb, lru, lock, calls, outstanding,
                   stats, tmpfree, max_ratio, swp, pool, flush, rbx, gh>>

\* --------------------------------------------------- zswap_writeback_entries
\* for (i = 0; i < nr; i++) and the test of the in-flight counter.
OverLimit(n) == n > ZSWAP_MAX_OUTSTANDING_FLUSHES

WbCheck(t) ==
    /\ Me(t).pc = "w_check"
    /\ th' = [th EXCEPT ![t].pc =
                 IF Me(t).i >= WRITEBACK_NR \/ OverLimit(outstanding)
                 THEN "s_retry" ELSE "w_pop",
                        ![t].ent = NULL, ![t].wbret = 0, ![t].rc = 0,
                        ![t].dst = None,
                        ![t].tried =
                            IF Me(t).i >= WRITEBACK_NR \/ OverLimit(outstanding)
                            THEN {} ELSE @]
    /\ UNCHANGED <<tree, nalloc, ent, nfree, rb, lru, lock, calls, stored_pages,
                   outstanding, stats, tmpfree, max_ratio, swp, pool, flush, rbx, gh>>

\* Under the lock: dequeue the LRU head and pin it.
WbPop(t) ==
    /\ Me(t).pc = "w_pop"
    /\ lock = 0
    /\ IF list_empty(lru, HEAD)
       THEN /\ th' = [th EXCEPT ![t].pc = "s_retry", ![t].tried = {}]
            /\ UNCHANGED <<lru, ent, lock>>
       ELSE LET e == lru.next[HEAD]
            IN /\ lru' = list_del_init(lru, e)
               /\ ent' = zswap_entry_get(ent, e)
               /\ lock' = t
               /\ th' = [th EXCEPT ![t].pc = "w_unlock1", ![t].ent = e]
    /\ UNCHANGED <<tree, nalloc, nfree, rb, calls, stored_pages, outstanding,
                   stats, tmpfree, max_ratio, swp, pool, flush, rbx, gh>>

\* The swap side of an offset: "none"; "dirty", a page in the swap cache whose
\* write was not started; "writing", in the swap cache and under write;
\* "clean", in the swap cache and written; "disk", on the device only.
InSwapCache(o) == swp[o].st \in {"dirty", "writing", "clean"}

\* page_cache_release(page): one reference less.  The EXIST case returns
\* without it: the reference that find_get_page took stays.
page_cache_release(n) == n - 1

\* zswap_writeback_entry up to the return of __swap_writepage.
\* zswap_get_swap_cache_page: EXIST when the page is in the swap cache,
\* NOMEM when an allocation fails, NEW otherwise.
WbEntry(t, nomem, submitted) ==
    /\ Me(t).pc = "w_entry"
    /\ LET e == Me(t).ent
           o == ent[e].offset
       IN \/ /\ InSwapCache(o)
             /\ ~nomem /\ submitted
             /\ gh.wbfail < MaxWbFail
             /\ th' = [th EXCEPT ![t].pc = "w_lock2", ![t].wbret = -EEXIST]
             /\ gh' = [gh EXCEPT !.wbfail = @ + 1]
             /\ swp' = [swp EXCEPT ![o].ref = @ + 1]
          \/ /\ ~InSwapCache(o)
             /\ nomem /\ submitted
             /\ gh.wbfail < MaxWbFail
             /\ th' = [th EXCEPT ![t].pc = "w_lock2", ![t].wbret = -ENOMEM]
             /\ gh' = [gh EXCEPT !.wbfail = @ + 1]
             /\ UNCHANGED swp
          \/ /\ ~InSwapCache(o)
             /\ ~nomem
             /\ \E c \in HandleReads(e) :
                   /\ swp' = [swp EXCEPT ![o] =
                                 [st |-> IF submitted THEN "writing" ELSE "dirty",
                                  data |-> c,
                                  ref |-> IF submitted THEN swp[o].ref + 1
                                          ELSE page_cache_release(swp[o].ref + 1)]]
                   /\ th' = [th EXCEPT ![t].pc = IF submitted THEN "w_inc" ELSE "w_lock2",
                                       ![t].wbret = 0]
             /\ gh' = [gh EXCEPT !.last[o] = IF @ = e THEN NULL ELSE @]
    /\ UNCHANGED <<tree, nalloc, ent, nfree, rb, lru, lock, calls, stored_pages,
                   outstanding, stats, tmpfree, max_ratio, pool, flush, rbx>>

\* atomic_inc(&zswap_outstanding_writebacks); page_cache_release; return 0
WbInc(t) ==
    /\ Me(t).pc = "w_inc"
    /\ outstanding' = outstanding + 1
    /\ swp' = [swp EXCEPT ![ent[Me(t).ent].offset].ref = page_cache_release(@)]
    /\ th' = [th EXCEPT ![t].pc = "w_lock2"]
    /\ UNCHANGED <<tree, nalloc, ent, nfree, rb, lru, lock, calls, stored_pages,
                   stats, tmpfree, max_ratio, pool, flush, rbx, gh>>

\* Under the lock again: the put, the second put after a writeback that
\* returned 0, and the cases on the refcount.
WbPuts(en, e, ret) ==
    IF ret = 0 THEN zswap_entry_put(zswap_entry_put(en, e), e)
    ELSE zswap_entry_put(en, e)

WbLock2(t) ==
    /\ Me(t).pc = "w_lock2"
    /\ lock = 0
    /\ LET e == Me(t).ent
           en == WbPuts(ent, e, Me(t).wbret)
           refcount == en[e].refcount
       IN /\ ent' = en
          /\ lru' = IF refcount = 1 THEN list_add(lru, e, HEAD) ELSE lru
          /\ rb' = IF refcount = 0 THEN rb_erase(rb, e) ELSE rb
          /\ rbx' = (rbx \/ (refcount = 0 /\ rb_erase_rebalances(rb, e)))
          /\ th' = [th EXCEPT ![t].pc = "w_unlock2", ![t].rc = refcount,
                              ![t].tried = IF Me(t).wbret # 0 THEN @ \union {e}
                                           ELSE @ \ {e}]
    /\ lock' = t
    /\ UNCHANGED <<tree, nalloc, nfree, calls, stored_pages, outstanding, stats,
                   tmpfree, max_ratio, swp, pool, flush, gh>>

\* zswap_free_entry(tree, entry)
zswap_free_entry(e, thn) ==
    /\ Freed([Now EXCEPT !.nfree = [nfree EXCEPT ![e] = FreeCount(@)], !.th = thn])
    /\ stored_pages' = stored_pages - 1

\* if (refcount <= 0) { zswap_free_entry(tree, entry); freed_nr++; }
WbFree(t) ==
    /\ Me(t).pc = "w_free"
    /\ zswap_free_entry(Me(t).ent,
                        [th EXCEPT ![t].pc = "w_check", ![t].i = @ + 1, ![t].ent = NULL,
                                   ![t].freed_nr = @ + 1])
    /\ UNCHANGED <<tree, nalloc, lock, calls, outstanding, stats,
                   tmpfree, max_ratio, swp, pool, flush, rbx>>

\* zswap_end_swap_write: the completion of a submitted write.
EndSwapWrite(o) ==
    /\ swp[o].st = "writing"
    /\ swp' = [swp EXCEPT ![o].st = "clean"]
    /\ outstanding' = outstanding - 1
    /\ UNCHANGED <<tree, nalloc, ent, nfree, rb, lru, lock, th, calls, stored_pages,
                   stats, tmpfree, max_ratio, pool, flush, rbx, gh>>

\* The VM reclaims the swap cache page once its write has completed.
Reclaim(o) ==
    /\ swp[o].st = "clean"
    /\ swp' = [swp EXCEPT ![o].st = "disk"]
    /\ UNCHANGED <<tree, nalloc, ent, nfree, rb, lru, lock, th, calls, stored_pages,
                   outstanding, stats, tmpfree, max_ratio, pool, flush, rbx, gh>>

\* ------------------------------------------------- the pool page accounting
\* zswap_alloc_page and zswap_free_page as the stores call them through
\* zs_malloc.  A store is inside its first zs_malloc only while it holds a
\* per-CPU buffer (get_cpu_var, preemption off: one store per CPU), and inside
\* its second zs_malloc only while it holds a scratch frame.  pool counts the
\* stores by where they are: cpu1 / tmp1 before the test of the limit, cpu2 /
\* tmp2 between the test and the atomic_inc, tmpw in the writeback pass.
max_pool_pages(percent) == (percent * TotalRam) \div 100
zswap_max_pool_pages == max_pool_pages(pool.percent)

\* module_param_named(max_pool_percent, zswap_max_pool_percent, uint, 0644):
\* a write to the parameter file, at any moment.
PoolPercents == {25, 50, 75}
SetPoolPercent(v) ==
    /\ v # pool.percent
    /\ pool' = [pool EXCEPT !.percent = v]
    /\ gh' = [gh EXCEPT !.hipct = IF v > @ THEN v ELSE @]
    /\ UNCHANGED <<tree, nalloc, ent, nfree, rb, lru, lock, th, calls, stored_pages,
                   outstanding, stats, tmpfree, max_ratio, swp, flush, rbx>>

PoolLimitOff(pages) == FALSE
PoolLimitHit(pages) == pages >= zswap_max_pool_pages

\* dst = get_cpu_var(zswap_dstmem); ...; handle = zs_malloc(tree->pool, dlen)
PoolStoreBegin ==
    /\ pool.cpu1 + pool.cpu2 < NCPU
    /\ pool' = [pool EXCEPT !.cpu1 = @ + 1]
    /\ UNCHANGED <<tree, nalloc, ent, nfree, rb, lru, lock, th, calls, stored_pages,
                   outstanding, stats, tmpfree, max_ratio, swp, flush, rbx, gh>>

\* The first zs_malloc failed: the scratch frame if there is one, then
\* put_cpu_var; without a frame the store rejects.
PoolFallback(p) ==
    /\ IF tmpfree > 0
       THEN /\ tmpfree' = tmpfree - 1
            /\ pool' = [p EXCEPT !.tmpw = @ + 1]
       ELSE /\ pool' = p
            /\ UNCHANGED tmpfree

\* if (atomic_read(&zswap_pool_pages) >= zswap_max_pool_pages()) return NULL;
PoolCheck(via) ==
    /\ \/ /\ via = "cpu"
          /\ pool.cpu1 > 0
          /\ IF PoolLimitHit(pool.pages)
             THEN PoolFallback([pool EXCEPT !.cpu1 = @ - 1])
             ELSE /\ pool' = [pool EXCEPT !.cpu1 = @ - 1, !.cpu2 = @ + 1]
                  /\ UNCHANGED tmpfree
       \/ /\ via = "tmp"
          /\ pool.tmp1 > 0
          /\ IF PoolLimitHit(pool.pages)
             THEN /\ pool' = [pool EXCEPT !.tmp1 = @ - 1]
                  /\ tmpfree' = tmpfree + 1
             ELSE /\ pool' = [pool EXCEPT !.tmp1 = @ - 1, !.tmp2 = @ + 1]
                  /\ UNCHANGED tmpfree
    /\ UNCHANGED <<tree, nalloc, ent, nfree, rb, lru, lock, th, calls, stored_pages,
                   outstanding, stats, max_ratio, swp, flush, rbx, gh>>

\* page = mempool_alloc(...); if (page) atomic_inc(&zswap_pool_pages);
\* then the store copies the bytes and releases its buffer or frame.
PoolInc(via, got) ==
    /\ LET p == IF got THEN [pool EXCEPT !.pages = @ + 1] ELSE pool
       IN \/ /\ via = "cpu"
             /\ pool.cpu2 > 0
             /\ IF got
                THEN /\ pool' = [p EXCEPT !.cpu2 = @ - 1]
                     /\ UNCHANGED tmpfree
                ELSE PoolFallback([p EXCEPT !.cpu2 = @ - 1])
          \/ /\ via = "tmp"
             /\ pool.tmp2 > 0
             /\ pool' = [p EXCEPT !.tmp2 = @ - 1]
             /\ tmpfree' = tmpfree + 1
    /\ UNCHANGED <<tree, nalloc, ent, nfree, rb, lru, lock, th, calls, stored_pages,
                   outstanding, stats, max_ratio, swp, flush, rbx, gh>>

\* zswap_writeback_entries has returned: the second zs_malloc.
PoolRetry ==
    /\ pool.tmpw > 0
    /\ pool' = [pool EXCEPT !.tmpw = @ - 1, !.tmp1 = @ + 1]
    /\ UNCHANGED <<tree, nalloc, ent, nfree, rb, lru, lock, th, calls, stored_pages,
                   outstanding, stats, tmpfree, max_ratio, swp, flush, rbx, gh>>

\* zswap_free_page: mempool_free; atomic_dec(&zswap_pool_pages)
PoolFree ==
    /\ pool.pages > 0
    /\ pool' = [pool EXCEPT !.pages = @ - 1]
    /\ UNCHANGED <<tree, nalloc, ent, nfree, rb, lru, lock, th, calls, stored_pages,
                   outstanding, stats, tmpfree, max_ratio, swp, flush, rbx, gh>>

\* ------------------------------------- the writeback loop and its counter
\* zswap_writeback_entries as the in-flight counter sees it, for an LRU that
\* does not run empty: the loop test, the outcome of zswap_writeback_entry,
\* the atomic_inc after a submitted write, and the completions.
FlushCall(c) ==
    /\ flush[c].pc = "idle"
    /\ flush' = [flush EXCEPT ![c] = [pc |-> "check", i |-> 0]]
    /\ UNCHANGED <<tree, nalloc, ent, nfree, rb, lru, lock, th, calls, stored_pages,
                   outstanding, stats, tmpfree, max_ratio, swp, pool, rbx, gh>>

\* for (i = 0; i < nr; i++) { if (atomic_read(...) > MAX) break; ...
FlushCheck(c) ==
    /\ flush[c].pc = "check"
    /\ flush' = [flush EXCEPT ![c].pc =
                    IF flush[c].i >= WRITEBACK_NR \/ OverLimit(outstanding)
                    THEN "idle" ELSE "entry"]
    /\ UNCHANGED <<tree, nalloc, ent, nfree, rb, lru, lock, th, calls, stored_pages,
                   outstanding, stats, tmpfree, max_ratio, swp, pool, rbx, gh>>

\* zswap_writeback_entry: the write is submitted, or the call fails or
\* __swap_writepage does not start the write.
FlushEntry(c, submitted) ==
    /\ flush[c].pc = "entry"
    /\ flush' = [flush EXCEPT ![c] =
                    IF submitted THEN [pc |-> "inc", i |-> flush[c].i]
                    ELSE [pc |-> "check", i |-> flush[c].i + 1]]
    /\ UNCHANGED <<tree, nalloc, ent, nfree, rb, lru, lock, th, calls, stored_pages,
                   outstanding, stats, tmpfree, max_ratio, swp, pool, rbx, gh>>

\* atomic_inc(&zswap_outstanding_writebacks), then the rest of the iteration.
FlushInc(c) ==
    /\ flush[c].pc = "inc"
    /\ outstanding' = outstanding + 1
    /\ flush' = [flush EXCEPT ![c] = [pc |-> "check", i |-> flush[c].i + 1]]
    /\ UNCHANGED <<tree, nalloc, ent, nfree, rb, lru, lock, th, calls, stored_pages,
                   stats, tmpfree, max_ratio, swp, pool, rbx, gh>>

\* Writes submitted and not yet completed.
FlushInFlight == outstanding + Cardinality({c \in Threads : flush[c].pc = "inc"})

\* zswap_end_swap_write for one of the writes in flight.
FlushEnd ==
    /\ FlushInFlight > 0
    /\ outstanding' = outstanding - 1
    /\ UNCHANGED <<tree, nalloc, ent, nfree, rb, lru, lock, th, calls, stored_pages,
                   stats, tmpfree, max_ratio, swp, pool, flush, rbx, gh>>

\* ------------------------------------------------------ zswap_frontswap_load
\* A writeback pass has popped entry e and not yet done its puts.
InWriteback(e) ==
    \E u \in Threads : th[u].ent = e /\ th[u].pc \in {"w_unlock1", "w_entry", "w_inc", "w_lock2"}

\* Under the lock: search, pin, take off the LRU.
LoadFind(t, o) ==
    /\ Call(t)
    /\ tree
    /\ lock = 0
    /\ LET me == [IdleThread EXCEPT !.op = "load", !.off = o,
                                    !.exp = Owed(o), !.inv = Invalidated(o)]
           e == zswap_rb_search(rb, Off, o)
       IN IF e = NULL
          THEN /\ th' = [th EXCEPT ![t] = Returned(me, -1)]
               /\ UNCHANGED <<ent, lru, lock>>
          ELSE /\ ent' = zswap_entry_get(ent, e)
               /\ lru' = lru_remove(lru, e)
               /\ lock' = t
               /\ th' = [th EXCEPT ![t] = [me EXCEPT !.pc = "l_unlock1", !.ent = e,
                                                      !.raced = InWriteback(e)]]
    /\ UNCHANGED <<tree, nalloc, nfree, rb, stored_pages, outstanding,
                   stats, tmpfree, max_ratio, swp, pool, flush, rbx, gh>>

\* Outside the lock: map the handle, decompress entry->length bytes.
LoadDecompress(t) ==
    /\ Me(t).pc = "l_decomp"
    /\ \E c \in HandleReads(Me(t).ent) :
          th' = [th EXCEPT ![t].pc = "l_put", ![t].dst = c]
    /\ UNCHANGED <<tree, nalloc, ent, nfree, rb, lru, lock, calls, stored_pages,
                   outstanding, stats, tmpfree, max_ratio, swp, pool, flush, rbx, gh>>

\* Under the lock: put; a nonzero refcount puts the entry at the LRU tail.
LoadPut(t) ==
    /\ Me(t).pc = "l_put"
    /\ lock = 0
    /\ LET e == Me(t).ent
           en == zswap_entry_put(ent, e)
           refcount == en[e].refcount
       IN /\ ent' = en
          /\ lru' = IF refcount # 0 THEN list_add_tail(lru, e, HEAD) ELSE lru
          /\ th' = [th EXCEPT ![t].pc = IF refcount # 0 THEN "l_unlock2" ELSE "l_unlock3",
                              ![t].rc = refcount]
          /\ gh' = IF refcount # 0 THEN [gh EXCEPT !.mru = Touch(@, e)] ELSE gh
    /\ lock' = t
    /\ UNCHANGED <<tree, nalloc, nfree, rb, calls, stored_pages, outstanding,
                   stats, tmpfree, max_ratio, swp, pool, flush, rbx>>

LoadFree(t) ==
    /\ Me(t).pc = "l_free"
    /\ zswap_free_entry(Me(t).ent, [th EXCEPT ![t] = Returned(Me(t), 0)])
    /\ UNCHANGED <<tree, nalloc, lock, calls, outstanding, stats,
                   tmpfree, max_ratio, swp, pool, flush, rbx>>

\* ------------------------------------------- zswap_frontswap_invalidate_page
InvalidatePage(t, o) ==
    /\ Call(t)
    /\ tree
    /\ lock = 0
    /\ LET me == [IdleThread EXCEPT !.op = "invalidate_page", !.off = o]
           e == zswap_rb_search(rb, Off, o)
       IN IF e = NULL
          THEN /\ th' = [th EXCEPT ![t] = Returned(me, 0)]
               /\ UNCHANGED <<ent, lru, rb, rbx, lock>>
          ELSE LET en == zswap_entry_put(ent, e)
               IN /\ rb' = rb_erase(rb, e)
                  /\ rbx' = (rbx \/ rb_erase_rebalances(rb, e))
                  /\ lru' = lru_remove(lru, e)
                  /\ ent' = en
                  /\ lock' = t
                  /\ th' = [th EXCEPT ![t] =
                               [me EXCEPT !.pc = "i_unlock", !.ent = e,
                                          !.rc = en[e].refcount]]
    /\ gh' = [gh EXCEPT !.last[o] = NULL, !.inval[o] = TRUE]
    /\ UNCHANGED <<tree, nalloc, nfree, stored_pages, outstanding, stats,
                   tmpfree, max_ratio, swp, pool, flush>>

InvalidateFree(t) ==
    /\ Me(t).pc = "i_free"
    /\ zswap_free_entry(Me(t).ent, [th EXCEPT ![t] = Returned(Me(t), 0)])
    /\ UNCHANGED <<tree, nalloc, lock, calls, outstanding, stats,
                   tmpfree, max_ratio, swp, pool, flush, rbx>>

\* ------------------------------------------- zswap_frontswap_invalidate_area
\* while ((node = rb_first(&tree->rbroot))) { rb_erase; zs_free;
\* zswap_entry_cache_free; atomic_dec(&zswap_stored_pages); }
RECURSIVE PurgeLoop(_, _)
PurgeLoop(s, fuel) ==
    LET node == rb_first(s.rb)
    IN IF node = NULL \/ fuel = 0 THEN s
       ELSE PurgeLoop([rb |-> rb_erase(s.rb, node),
                       nfree |-> [s.nfree EXCEPT ![node] = FreeCount(@)],
                       sp |-> s.sp - 1,
                       x |-> s.x \/ rb_erase_rebalances(s.rb, node)],
                      fuel - 1)

InvalidateArea(t) ==
    /\ Call(t)
    /\ LET me == [IdleThread EXCEPT !.op = "invalidate_area"]
       IN IF ~tree
          THEN /\ th' = [th EXCEPT ![t] = Returned(me, 0)]
               /\ UNCHANGED <<ent, rb, lru, nfree, stored_pages, rbx, lock, gh>>
          ELSE /\ lock = 0
               /\ LET s == PurgeLoop([rb |-> rb, nfree |-> nfree, sp |-> stored_pages,
                                      x |-> rbx], MaxEntries + 1)
                  IN /\ Freed([rb |-> [s.rb EXCEPT !.root = NULL],
                               lru |-> INIT_LIST_HEAD(lru, HEAD),
                               ent |-> ent,
                               nfree |-> s.nfree,
                               gh |-> [gh EXCEPT !.last = [o \in Offsets |-> NULL],
                                                 !.inval = [o \in Offsets |-> TRUE],
                                                 !.purged = @ \union
                                                    {e \in Entries : InIndex(rb, e)}],
                               th |-> [th EXCEPT ![t] = [me EXCEPT !.pc = "a_unlock"]]])
                     /\ stored_pages' = s.sp
                     /\ rbx' = s.x
               /\ lock' = t
    /\ UNCHANGED <<tree, nalloc, outstanding, stats, tmpfree,
                   max_ratio, swp, pool, flush>>

\* --------------------------------------------------------------- spin_unlock
AfterUnlock(r) ==
    CASE r.pc = "w_unlock1" -> [r EXCEPT !.pc = "w_entry"]
      [] r.pc = "w_unlock2" ->
            IF r.rc <= 0 THEN [r EXCEPT !.pc = "w_free"]
            ELSE [r EXCEPT !.pc = "w_check", !.i = @ + 1]
      [] r.pc = "s_unlock" -> [r EXCEPT !.pc = "s_stat"]
      [] r.pc = "l_unlock1" -> [r EXCEPT !.pc = "l_decomp"]
      [] r.pc = "l_unlock2" -> Returned(r, 0)
      [] r.pc = "l_unlock3" -> [r EXCEPT !.pc = "l_free"]
      [] r.pc = "i_unlock" ->
            IF r.rc # 0 THEN Returned(r, 0) ELSE [r EXCEPT !.pc = "i_free"]
      [] r.pc = "a_unlock" -> Returned(r, 0)
      [] OTHER -> r

Unlock(t) ==
    /\ lock = t
    /\ lock' = 0
    /\ th' = [th EXCEPT ![t] = AfterUnlock(Me(t))]
    /\ UNCHANGED <<tree, nalloc, ent, nfree, rb, lru, calls, stored_pages,
                   outstanding, stats, tmpfree, max_ratio, swp, pool, flush, rbx, gh>>

\* ------------------------------------------------------------- specification
Faults == {"ok", "kmem", "codec"}

Next ==
    \/ FrontswapInit
    \/ \E t \in Threads, o \in Offsets, p \in Pages, f \in Faults : StoreBegin(t, o, p, f)
    \/ \E t \in Threads, ok \in BOOLEAN : StoreMalloc(t, ok)
    \/ \E t \in Threads, ok \in BOOLEAN : StoreRetry(t, ok)
    \/ \E t \in Threads : StoreSaved(t)
    \/ \E t \in Threads : StoreReject(t)
    \/ \E t \in Threads : StoreMap(t)
    \/ \E t \in Threads : StoreStat(t)
    \/ \E t \in Threads : WbCheck(t)
    \/ \E t \in Threads : WbPop(t)
    \/ \E t \in Threads, nomem \in BOOLEAN, submitted \in BOOLEAN : WbEntry(t, nomem, submitted)
    \/ \E t \in Threads : WbInc(t)
    \/ \E t \in Threads : WbLock2(t)
    \/ \E t \in Threads : WbFree(t)
    \/ \E o \in Offsets : EndSwapWrite(o)
    \/ \E o \in Offsets : Reclaim(o)
    \/ \E t \in Threads, o \in Offsets : LoadFind(t, o)
    \/ \E t \in Threads : LoadDecompress(t)
    \/ \E t \in Threads : LoadPut(t)
    \/ \E t \in Threads : LoadFree(t)
    \/ \E t \in Threads, o \in Offsets : InvalidatePage(t, o)
    \/ \E t \in Threads : InvalidateFree(t)
    \/ \E t \in Threads : InvalidateArea(t)
    \/ \E t \in Threads : Unlock(t)
    \/ \E v \in RatioValues : SetRatio(v)
    \/ \E v \in PoolPercents : SetPoolPercent(v)
    \/ PoolStoreBegin
    \/ \E via \in {"cpu", "tmp"} : PoolCheck(via)
    \/ \E via \in {"cpu", "tmp"}, got \in BOOLEAN : PoolInc(via, got)
    \/ PoolRetry
    \/ PoolFree

\* One caller at a time: every call runs alone, with every fault, and the
\* swap device completes its writes in between.  A load that runs alone never
\* drops the last reference, so LoadFree has no part in it.
NextSeq ==
    \/ FrontswapInit
    \/ \E o \in Offsets, p \in Pages, f \in Faults : StoreBegin(1, o, p, f)
    \/ \E ok \in BOOLEAN : StoreMalloc(1, ok)
    \/ \E ok \in BOOLEAN : StoreRetry(1, ok)
    \/ StoreSaved(1)
    \/ StoreReject(1)
    \/ StoreMap(1)
    \/ StoreStat(1)
    \/ WbCheck(1)
    \/ WbPop(1)
    \/ \E nomem \in BOOLEAN, submitted \in BOOLEAN : WbEntry(1, nomem, submitted)
    \/ WbInc(1)
    \/ WbLock2(1)
    \/ WbFree(1)
    \/ \E o \in Offsets : EndSwapWrite(o)
    \/ \E o \in Offsets : Reclaim(o)
    \/ \E o \in Offsets : LoadFind(1, o)
    \/ LoadDecompress(1)
    \/ LoadPut(1)
    \/ \E o \in Offsets : InvalidatePage(1, o)
    \/ InvalidateFree(1)
    \/ InvalidateArea(1)
    \/ Unlock(1)

InitSeq == InitCore /\ calls = [t \in Threads |-> IF t = 1 THEN MaxCallsSeq ELSE 0]
SpecSeq == InitSeq /\ [][NextSeq]_vars

Spec == Init /\ [][Next]_vars

RbInFragment == rbx = FALSE

\* Two callers over two offsets: thread 1 stores, and its zs_malloc may fail
\* so that it runs the writeback pass; thread 2 loads and invalidates.
RacePages == {"PA"}

NextEvict ==
    \/ FrontswapInit
    \/ \E o \in Offsets, p \in RacePages : StoreBegin(1, o, p, "ok")
    \/ \E ok \in BOOLEAN : StoreMalloc(1, ok)
    \/ StoreRetry(1, TRUE)
    \/ StoreSaved(1)
    \/ StoreMap(1)
    \/ StoreStat(1)
    \/ WbCheck(1)
    \/ WbPop(1)
    \/ \E nomem \in BOOLEAN : WbEntry(1, nomem, TRUE)
    \/ WbInc(1)
    \/ WbLock2(1)
    \/ WbFree(1)
    \/ \E o \in Offsets : LoadFind(2, o)
    \/ LoadDecompress(2)
    \/ LoadPut(2)
    \/ LoadFree(2)
    \/ \E o \in Offsets : InvalidatePage(2, o)
    \/ InvalidateFree(2)
    \/ \E t \in Threads : Unlock(t)

SpecEvict == Init /\ [][NextEvict]_vars

\* Two callers on one offset: thread 1 stores and may run the writeback
\* pass; thread 2 stores, loads and invalidates.
RaceOffsets == {0}

NextRace ==
    \/ FrontswapInit
    \/ \E t \in Threads, o \in RaceOffsets, p \in RacePages : StoreBegin(t, o, p, "ok")
    \/ \E t \in Threads : StoreMalloc(t, TRUE)
    \/ StoreMalloc(1, FALSE)
    \/ StoreRetry(1, TRUE)
    \/ StoreSaved(1)
    \/ \E t \in Threads : StoreMap(t)
    \/ \E t \in Threads : StoreStat(t)
    \/ WbCheck(1)
    \/ WbPop(1)
    \/ \E nomem \in BOOLEAN : WbEntry(1, nomem, TRUE)
    \/ WbInc(1)
    \/ WbLock2(1)
    \/ WbFree(1)
    \/ \E o \in RaceOffsets : LoadFind(2, o)
    \/ LoadDecompress(2)
    \/ LoadPut(2)
    \/ LoadFree(2)
    \/ \E o \in RaceOffsets : InvalidatePage(2, o)
    \/ InvalidateFree(2)
    \/ \E t \in Threads : Unlock(t)

SpecRace == Init /\ [][NextRace]_vars

\* ==================================================================== claims
LoadDone(t) == th[t].pc = "done" /\ th[t].op = "load"

\* C1: round trip.  A load of an offset for which the area owes a page (the
\* last store there returned 0 and nothing invalidated or wrote back the
\* entry since) returns 0 and hands back exactly the bytes of that page.
C1_RoundTrip ==
    \A t \in Threads :
        LoadDone(t) /\ th[t].exp # None => th[t].ret = 0 /\ th[t].dst = th[t].exp

C1_Witness ==
    \E t \in Threads :
        LoadDone(t) /\ th[t].exp = "PB" /\ th[t].ret = 0 /\ th[t].dst = "PB"

\* C2: invalidate is synchronous and idempotent.  Once invalidate_page on an
\* offset has returned and until a store installs an entry there again, the
\* index has no entry for the offset, every load of it returns -1, and a
\* further invalidate_page on it leaves index, LRU, entries and the
\* stored-pages counter as they are.
C2_IndexClear == \A o \in Offsets : Invalidated(o) => zswap_rb_search(rb, Off, o) = NULL

C2_LoadMisses == \A t \in Threads : LoadDone(t) /\ th[t].inv => th[t].ret = -1

C2_SecondIsNoop ==
    \A t \in Threads, o \in Offsets :
        Invalidated(o) /\ InvalidatePage(t, o) =>
            UNCHANGED <<rb, lru, ent, nfree, stored_pages>>

C2_InvalidateSynchronous ==
    [](C2_IndexClear /\ C2_LoadMisses) /\ [][C2_SecondIsNoop]_vars

\* C3: duplicate replace.  When the insertion of a store meets an entry at its
\* offset, the step counts one duplicate, takes the old entry out of the
\* index and off the LRU, and leaves the new entry as the one the index maps
\* the offset to, on the LRU and holding the bytes of the second store; the
\* store then returns 0.
C3_Replaces ==
    \A t \in Threads :
        LET o == th[t].off
            d == zswap_rb_search(rb, Off, o)
            e == th[t].new
        IN StoreMap(t) /\ d # NULL =>
              /\ stats'.duplicate_entry = stats.duplicate_entry + 1
              /\ ~InIndex(rb', d)
              /\ ~OnLru(lru', d)
              /\ zswap_rb_search(rb', [x \in Entries |-> ent'[x].offset], o) = e
              /\ rb_reach(rb', rb'.root, MaxEntries + 1) \cap {x \in Entries : ent'[x].offset = o} = {e}
              /\ OnLru(lru', e)
              /\ Decompress(ent'[e].handle, ent'[e].length) = th[t].page

C3_ReturnsZero ==
    \A t \in Threads :
        th[t].op = "store" /\ th[t].dups > 0 /\ th[t].pc = "done" => th[t].ret = 0

C3_DuplicateReplace == [][C3_Replaces]_vars /\ []C3_ReturnsZero

C3_Witness ==
    \E t \in Threads :
        /\ th[t].op = "store" /\ th[t].dups = 1 /\ th[t].pc = "done" /\ th[t].ret = 0
        /\ th[t].page = "PB"
        /\ stats.duplicate_entry = 1

\* C4: store then load.  A load of an offset whose last store returned 0, with
\* no invalidate_page or invalidate_area on it since and its entry not handed
\* to the swap cache by a writeback that returned 0, returns 0 and the page
\* stored, whatever else ran in between.
C4_StoreThenLoad ==
    \A t \in Threads :
        LoadDone(t) /\ th[t].exp \in Pages => th[t].ret = 0 /\ th[t].dst = th[t].exp

\* C5: writeback never loses a page.  When the writeback pass frees an entry
\* for which zswap_writeback_entry returned 0, the swap side of the entry's
\* offset (swap cache, write in flight, or device) holds the page that was
\* stored in the entry; and the pass drops the last reference of an entry
\* whose writeback failed only if the entry is no longer in the index.
C5_Step ==
    \A t \in Threads :
        LET e == th[t].ent
            o == ent[e].offset
        IN /\ WbFree(t) /\ th[t].wbret = 0 =>
                 swp[o].st # "none" /\ swp[o].data = gh.page[e]
           /\ WbLock2(t) /\ th[t].wbret # 0 /\ th'[t].rc <= 0 => ~InIndex(rb, e)

C5_WritebackKeepsPage == [][C5_Step]_vars

\* C6: load races writeback.  A load that found its entry e in the index
\* while a writeback pass had e popped and pinned returns 0, and once the
\* load has returned and no writeback pass holds e, e is either in the index
\* with refcount 1, on the LRU and not freed, or in neither the index nor the
\* LRU and freed exactly once.
C6_Settled(e) ==
    \/ InIndex(rb, e) /\ ent[e].refcount = 1 /\ OnLru(lru, e) /\ nfree[e] = 0
    \/ ~InIndex(rb, e) /\ ~OnLru(lru, e) /\ nfree[e] = 1

C6_LoadRacesWriteback ==
    \A t \in Threads :
        LoadDone(t) /\ th[t].raced =>
            /\ th[t].ret = 0
            /\ (\A u \in Threads \ {t} : th[u].ent # th[t].ent) => C6_Settled(th[t].ent)

\* C7: refcount and the lock.  A refcount is negative only on an entry that
\* has been erased from the index and that a thread is about to free without
\* reading the count again (or that has been freed already): the two puts of
\* a writeback that returned 0 bring it to -1 when an invalidate_page or a
\* duplicate store has dropped the index's reference in the meantime.
C7_Dying(e) ==
    \E t \in Threads :
        /\ th[t].ent = e
        /\ \/ th[t].pc \in {"w_free", "l_unlock3", "l_free", "i_free"}
           \/ th[t].pc = "w_unlock2" /\ th[t].rc <= 0
           \/ th[t].pc = "i_unlock" /\ th[t].rc = 0

NextFlush ==
    \/ \E c \in Threads : FlushCall(c)
    \/ \E c \in Threads : FlushCheck(c)
    \/ \E c \in Threads, submitted \in BOOLEAN : FlushEntry(c, submitted)
    \/ \E c \in Threads : FlushInc(c)
    \/ FlushEnd

SpecFlush == Init /\ [][NextFlush]_vars

\* C8: bounded in-flight.  The counter of outstanding writebacks never
\* exceeds ZSWAP_MAX_OUTSTANDING_FLUSHES.
C8_BoundedInFlight == outstanding <= ZSWAP_MAX_OUTSTANDING_FLUSHES

\* Stores allocating pool pages and entries being freed, nothing else.
NextPool ==
    \/ PoolStoreBegin
    \/ \E via \in {"cpu", "tmp"} : PoolCheck(via)
    \/ \E via \in {"cpu", "tmp"}, got \in BOOLEAN : PoolInc(via, got)
    \/ PoolRetry
    \/ PoolFree
    \/ \E v \in PoolPercents : SetPoolPercent(v)

SpecPool == Init /\ [][NextPool]_vars

\* C9: pool ceiling.  With any number of stores calling zswap_alloc_page
\* concurrently, zswap_pool_pages never exceeds the limit
\* max_pool_percent * totalram_pages / 100 by more than the 16 scratch frames
\* plus the per-CPU buffers.  As stated, against the value max_pool_percent
\* has at the moment of the observation:
C9_PoolCeiling ==
    pool.pages <= zswap_max_pool_pages + ZSWAP_TMPPAGE_POOL_PAGES + NCPU

\* C9 as the code keeps it: the ceiling is the one of the highest value
\* max_pool_percent has had.  Lowering the parameter frees nothing.
C9_PoolCeilingHigh ==
    pool.pages <= max_pool_pages(gh.hipct) + ZSWAP_TMPPAGE_POOL_PAGES + NCPU

C9_Witness ==
    /\ pool.percent < gh.hipct
    /\ pool.pages = max_pool_pages(gh.hipct) + ZSWAP_TMPPAGE_POOL_PAGES + NCPU - 1
    /\ pool.pages > zswap_max_pool_pages + ZSWAP_TMPPAGE_POOL_PAGES + NCPU
    /\ tmpfree = ZSWAP_TMPPAGE_POOL_PAGES

\* Two callers storing every page while max_compression_ratio is rewritten;
\* invalidate_page empties the offsets again.
AdmitPages == {"PB", "PC"}

NextAdmit ==
    \/ FrontswapInit
    \/ \E t \in Threads, o \in Offsets, p \in AdmitPages : StoreBegin(t, o, p, "ok")
    \/ \E t \in Threads : StoreMalloc(t, TRUE)
    \/ \E t \in Threads : StoreReject(t)
    \/ \E t \in Threads : StoreMap(t)
    \/ \E t \in Threads : StoreStat(t)
    \/ \E o \in Offsets : InvalidatePage(2, o)
    \/ \E t \in Threads : Unlock(t)
    \/ \E v \in RatioValues : SetRatio(v)

SpecAdmit == Init /\ [][NextAdmit]_vars

Indexed(r) == {e \in Entries : InIndex(r, e)}

\* C10: admission ratio.  Every entry in the index satisfies
\* length * 100 / PAGE_SIZE <= max_compression_ratio (integer division), and
\* a store whose compressed length gives a larger value returns -E2BIG,
\* increments the compress-poor counter by 1 and installs nothing.
\* As stated, against the value max_compression_ratio has at the moment of
\* the observation, and with the counter one higher after the rejection:
C10_IndexWithinCurrent ==
    \A e \in Indexed(rb) : (ent[e].length * 100) \div PAGE_SIZE <= max_ratio

C10_RejectCountsOne ==
    \A t \in Threads :
        StoreReject(t) /\ th[t].ret = -E2BIG =>
            stats'.reject_compress_poor = stats.reject_compress_poor + 1

C10_AdmissionRatio == []C10_IndexWithinCurrent /\ [][C10_RejectCountsOne]_vars

\* C10 as the code keeps it: the ratio is the one read by the store's own
\* test, and the counter is written as the value the store read plus one.
C10_IndexWithinAdmitted ==
    \A e \in Indexed(rb) : (ent[e].length * 100) \div PAGE_SIZE <= gh.ratio[e]

C10_Tested ==
    \A t \in Threads :
        th[t].pc \in {"idle", "done"} /\ th'[t].pc \notin {"idle", "done"}
        /\ th'[t].op = "store" /\ th'[t].buf # NoData =>
            IF (th'[t].dlen * 100) \div PAGE_SIZE > max_ratio
            THEN th'[t].pc = "s_reject" /\ th'[t].ret = -E2BIG
            ELSE th'[t].pc = "s_malloc"

C10_Rejected ==
    \A t \in Threads :
        StoreReject(t) /\ th[t].ret = -E2BIG =>
            /\ (th[t].dlen * 100) \div PAGE_SIZE > gh.ratio[th[t].new]
            /\ stats'.reject_compress_poor = th[t].reg + 1
            /\ Indexed(rb') = Indexed(rb)
            /\ th'[t].pc = "done" /\ th'[t].ret = -E2BIG

C10_AdmissionAtTest ==
    []C10_IndexWithinAdmitted /\ [][C10_Tested /\ C10_Rejected]_vars

C10_Witness ==
    /\ \E e \in Indexed(rb) : (ent[e].length * 100) \div PAGE_SIZE > max_ratio
    /\ \A t \in Threads :
          th[t].pc = "done" /\ th[t].op = "store" /\ th[t].ret = -E2BIG
    /\ stats.reject_compress_poor = 1

\* C11: savings guarantee.  Every entry in the index satisfies
\* length * 100 <= max_ratio * PAGE_SIZE exactly, without rounding slack,
\* max_ratio being the value the store's own test read, and its length is
\* more than 0 and at most PAGE_SIZE.
C11_SavingsExact ==
    \A e \in Indexed(rb) :
        /\ ent[e].length * 100 <= gh.ratio[e] * PAGE_SIZE
        /\ 0 < ent[e].length
        /\ ent[e].length <= PAGE_SIZE

\* Two callers on one offset with invalidate_area: thread 1 stores and may
\* run the writeback pass, thread 2 loads, and either of them purges the area.
NextPurge ==
    \/ FrontswapInit
    \/ \E o \in RaceOffsets, p \in RacePages : StoreBegin(1, o, p, "ok")
    \/ \E ok \in BOOLEAN : StoreMalloc(1, ok)
    \/ StoreRetry(1, TRUE)
    \/ StoreSaved(1)
    \/ StoreMap(1)
    \/ StoreStat(1)
    \/ WbCheck(1)
    \/ WbPop(1)
    \/ \E nomem \in BOOLEAN : WbEntry(1, nomem, TRUE)
    \/ WbInc(1)
    \/ WbLock2(1)
    \/ WbFree(1)
    \/ \E o \in RaceOffsets : LoadFind(2, o)
    \/ LoadDecompress(2)
    \/ LoadPut(2)
    \/ LoadFree(2)
    \/ \E t \in Threads : InvalidateArea(t)
    \/ \E t \in Threads : Unlock(t)

SpecPurge == Init /\ [][NextPurge]_vars

\* C12: no leak after purge.  zswap_frontswap_invalidate_area leaves the
\* index and the LRU empty, has freed every entry the index held and lowered
\* the stored-pages counter by their number; and each entry it freed was
\* freed exactly once and is never in the index or on the LRU again, also
\* when a load or a writeback had it pinned during the purge.
C12_PurgeStep ==
    \A t \in Threads :
        InvalidateArea(t) /\ tree =>
            /\ Indexed(rb') = {}
            /\ list_empty(lru', HEAD)
            /\ \A e \in Indexed(rb) : nfree'[e] >= 1
            /\ stored_pages' = stored_pages - Cardinality(Indexed(rb))

C12_PurgedStayGone ==
    \A e \in gh.purged : nfree[e] = 1 /\ ~OnLru(lru, e) /\ ~InIndex(rb, e)

C12_NoLeakAfterPurge == [][C12_PurgeStep]_vars /\ []C12_PurgedStayGone

\* C13: lock-refcount discipline.  Every step that changes the refcount of
\* an allocated entry record, the set of entries in the index, its root, or
\* the sequence of the LRU list is the step of a thread that takes the area
\* lock in it and holds it afterwards.  (Giving a freed record back is no
\* change of a refcount.)
C13_RefcountChanged ==
    \E e \in Entries :
        /\ e <= nalloc
        /\ ent'[e].refcount # ent[e].refcount
        /\ ~(nfree'[e] > 0 /\ ent'[e] = NoEntry)

C13_LinksChanged ==
    \/ Indexed(rb') # Indexed(rb)
    \/ rb'.root # rb.root
    \/ LruSeq(lru') # LruSeq(lru)

C13_Step ==
    C13_RefcountChanged \/ C13_LinksChanged =>
        /\ lock = 0
        /\ lock' \in Threads
        /\ th'[lock'] # th[lock']
        /\ \A u \in Threads \ {lock'} : th'[u] = th[u]

C13_LockDiscipline == [][C13_Step]_vars

C13_Witness ==
    /\ lock = 2 /\ th[2].pc = "l_unlock2"
    /\ th[1].pc = "w_entry" /\ th[1].ent = th[2].ent
    /\ nfree[th[2].ent] = 0 /\ ent[th[2].ent].refcount = 2
    /\ OnLru(lru, th[2].ent)

\* C14: no retry inside one eviction call.  Within one call of
\* zswap_writeback_entries an entry whose zswap_writeback_entry failed is
\* put back on the LRU, and the remaining iterations of that call do not
\* dequeue it for another zswap_writeback_entry.
C14_PutBack ==
    \A t \in Threads :
        WbLock2(t) /\ th[t].wbret # 0 /\ th'[t].rc = 1 => OnLru(lru', th[t].ent)

C14_NotAgain ==
    \A t \in Threads :
        WbPop(t) /\ th'[t].pc = "w_unlock1" => th'[t].ent \notin th[t].tried

C14_NoRetry == [][C14_PutBack /\ C14_NotAgain]_vars

\* C14 as the code does it: the failed entry goes back to the head of the
\* LRU, which is where the next iteration of the same call dequeues from, so
\* with one caller the iteration after a failure dequeues the failed entry
\* again, and goes on to the other entries only once its writeback returned 0.
C14_PutBackAtHead ==
    \A t \in Threads :
        WbLock2(t) /\ th[t].wbret # 0 /\ th'[t].rc = 1 =>
            /\ lru'.next[HEAD] = th[t].ent
            /\ th[t].ent \in th'[t].tried

C14_HeadAgain ==
    \A t \in Threads :
        WbPop(t) /\ th'[t].pc = "w_unlock1" /\ th[t].tried # {} =>
            th'[t].ent \in th[t].tried

C14_RetriesHead == [][C14_PutBackAtHead /\ C14_HeadAgain]_vars

C14_Witness ==
    /\ th[1].pc = "w_entry"
    /\ th[1].ent \in th[1].tried
    /\ Len(LruSeq(lru)) >= 1

\* One caller storing under every fault while stores on the other CPUs fail
\* their first zs_malloc and sit in the writeback pass, each with a scratch
\* frame, so that the ring can run empty.
NextFail ==
    \/ FrontswapInit
    \/ \E o \in RaceOffsets, p \in Pages, f \in Faults : StoreBegin(1, o, p, f)
    \/ \E ok \in BOOLEAN : StoreMalloc(1, ok)
    \/ \E ok \in BOOLEAN : StoreRetry(1, ok)
    \/ StoreSaved(1)
    \/ StoreReject(1)
    \/ StoreMap(1)
    \/ StoreStat(1)
    \/ WbCheck(1)
    \/ WbPop(1)
    \/ \E nomem \in BOOLEAN : WbEntry(1, nomem, TRUE)
    \/ WbInc(1)
    \/ WbLock2(1)
    \/ WbFree(1)
    \/ Unlock(1)
    \/ PoolStoreBegin
    \/ PoolCheck("cpu")
    \/ PoolInc("cpu", FALSE)

SpecFail == Init /\ [][NextFail]_vars

StoreDone(t) == th[t].pc = "done" /\ th[t].op = "store"

\* C15: a failed store releases everything.  A store that returns holds
\* neither a per-CPU buffer nor a scratch frame, whatever its result; the
\* buffer is never released more often than taken; every scratch frame is in
\* the ring or with a store that is still running; and the step by which a
\* store that had an entry record fails frees that record, which is then in
\* neither the index nor the LRU.
C15_Balanced ==
    /\ \A t \in Threads :
          /\ th[t].cpu \in {0, 1}
          /\ th[t].pc \in {"idle", "done"} => th[t].cpu = 0 /\ ~th[t].tmp
    /\ tmpfree + pool.tmpw + pool.tmp1 + pool.tmp2
          + Cardinality({t \in Threads : th[t].tmp}) = ZSWAP_TMPPAGE_POOL_PAGES

C15_FailStep ==
    \A t \in Threads :
        /\ StoreReject(t) /\ th[t].new # NULL =>
              /\ th'[t].pc = "done" /\ th'[t].ret # 0
              /\ nfree'[th[t].new] = 1
              /\ ~InIndex(rb', th[t].new)
              /\ ~OnLru(lru', th[t].new)
        /\ th[t].pc # "done" /\ th'[t].pc = "done" /\ th'[t].op = "store"
           /\ th'[t].ret # 0 /\ th[t].pc # "idle" => StoreReject(t)

C15_FailedStoreReleases == []C15_Balanced /\ [][C15_FailStep]_vars

C15_Witness ==
    /\ StoreDone(1) /\ th[1].ret = -ENOMEM
    /\ stats.reject_tmppage_fail = 1
    /\ stats.reject_zsmalloc_fail = 1
    /\ tmpfree = 0

\* Two callers storing one page each under memory pressure: the first
\* zs_malloc may fail, the second too, and stores on the other CPUs hold
\* scratch frames.
NextPressure ==
    \/ FrontswapInit
    \/ \E t \in Threads, o \in RaceOffsets, p \in RacePages : StoreBegin(t, o, p, "ok")
    \/ \E t \in Threads, ok \in BOOLEAN : StoreMalloc(t, ok)
    \/ \E t \in Threads, ok \in BOOLEAN : StoreRetry(t, ok)
    \/ \E t \in Threads : StoreSaved(t)
    \/ \E t \in Threads : StoreReject(t)
    \/ \E t \in Threads : StoreMap(t)
    \/ \E t \in Threads : StoreStat(t)
    \/ \E t \in Threads : WbCheck(t)
    \/ \E t \in Threads : WbPop(t)
    \/ \E t \in Threads, nomem \in BOOLEAN : WbEntry(t, nomem, TRUE)
    \/ \E t \in Threads : WbInc(t)
    \/ \E t \in Threads : WbLock2(t)
    \/ \E t \in Threads : WbFree(t)
    \/ \E t \in Threads : Unlock(t)
    \/ PoolStoreBegin
    \/ PoolCheck("cpu")
    \/ PoolInc("cpu", FALSE)

InitPressure == InitCore /\ calls = [t \in Threads |-> MaxCallsPressure]
SpecPressure == InitPressure /\ [][NextPressure]_vars

InWritebackPass(t) ==
    th[t].pc \in {"w_check", "w_pop", "w_unlock1", "w_entry", "w_inc", "w_lock2",
                  "w_unlock2", "w_free"}

\* C16: pressure fallback.  The parts that do not depend on how a counter is
\* written: a failed first zs_malloc takes a scratch frame or, with the ring
\* empty, rejects with -ENOMEM on the tmppage-fail counter; the frame gets
\* the dlen compressed bytes; the per-CPU buffer is released before the
\* writeback pass, which runs at most 16 iterations; the second zs_malloc is
\* the last one, and after its success the store can only return 0.
C16_Fallback ==
    \A t \in Threads :
        StoreMalloc(t, FALSE) =>
            IF tmpfree = 0
            THEN /\ th'[t].pc = "s_reject" /\ th'[t].ret = -ENOMEM
                 /\ th'[t].cnt = "reject_tmppage_fail"
                 /\ ~th'[t].tmp
            ELSE /\ th'[t].pc = "w_check" /\ th'[t].i = 0
                 /\ th'[t].tmp /\ tmpfree' = tmpfree - 1
                 /\ th'[t].buf = [body |-> th[t].buf.body, n |-> th[t].dlen]
                 /\ th'[t].cpu = 0

C16_PassBounded ==
    \A t \in Threads :
        InWritebackPass(t) =>
            th[t].cpu = 0 /\ th[t].tmp /\ th[t].i <= WRITEBACK_NR

C16_RetryOnce ==
    \A t \in Threads :
        /\ th[t].pc = "s_retry" /\ th'[t] # th[t] =>
              \/ th'[t].pc = "s_saved"
              \/ th'[t].pc = "s_reject" /\ th'[t].ret = -ENOMEM
                 /\ th'[t].cnt = "reject_zsmalloc_fail"
        /\ th[t].pc = "s_saved" /\ th'[t] # th[t] => StoreSaved(t) /\ th'[t].pc = "s_map"
        /\ th[t].pc = "s_map" /\ th'[t] # th[t] => th'[t].pc = "s_unlock"
        /\ th[t].pc = "s_unlock" /\ th'[t] # th[t] => th'[t].pc = "s_stat"
        /\ th[t].pc = "s_stat" /\ th'[t] # th[t] => th'[t].pc = "done" /\ th'[t].ret = 0

\* C16 as stated: each of the three counters is one higher after the step
\* that increments it.
C16_CountersExact ==
    \A t \in Threads :
        /\ StoreSaved(t) => stats'.saved_by_writeback = stats.saved_by_writeback + 1
        /\ StoreReject(t) /\ th[t].cnt \in {"reject_tmppage_fail", "reject_zsmalloc_fail"} =>
              stats'[th[t].cnt] = stats[th[t].cnt] + 1

C16_PressureFallback ==
    []C16_PassBounded /\ [][C16_Fallback /\ C16_RetryOnce /\ C16_CountersExact]_vars

\* C16 as the code does it: each counter is written as the value the store
\* read plus one, without a lock or an atomic.
C16_CountersWritten ==
    \A t \in Threads :
        /\ StoreSaved(t) => stats'.saved_by_writeback = th[t].reg + 1
        /\ StoreReject(t) /\ th[t].cnt \in {"reject_tmppage_fail", "reject_zsmalloc_fail"} =>
              stats'[th[t].cnt] = th[t].reg + 1

C16_PressureFallbackRacy ==
    []C16_PassBounded /\ [][C16_Fallback /\ C16_RetryOnce /\ C16_CountersWritten]_vars

C16_Witness ==
    /\ \A t \in Threads : StoreDone(t) /\ th[t].ret = 0
    /\ stats.saved_by_writeback = 1
    /\ stats.reject_zsmalloc_fail = 0
    /\ nalloc = NThreads

\* C17: AlreadyPresent leaves the entry.  zswap_writeback_entry that finds
\* the page in the swap cache returns -EEXIST without a writepage and without
\* touching the outstanding-writebacks counter.
C17_NoWrite ==
    \A t \in Threads :
        th[t].pc = "w_entry" /\ th'[t].wbret = -EEXIST =>
            /\ th'[t].pc = "w_lock2"
            /\ \A o \in Offsets :
                  swp'[o].st = swp[o].st /\ swp'[o].data = swp[o].data
            /\ outstanding' = outstanding

\* C17, the part that holds whoever else has the entry pinned: when
\* zswap_writeback_entries then processes the result for an entry that is in
\* the index (neither invalidated nor replaced), the entry stays in the
\* index and the pass does not go on to free it.
C17_Remains ==
    \A t \in Threads :
        LET e == th[t].ent
        IN WbLock2(t) /\ th[t].wbret = -EEXIST /\ InIndex(rb, e) =>
              /\ InIndex(rb', e)
              /\ th'[t].rc > 0

C17_AlreadyPresent == [][C17_NoWrite /\ C17_Remains]_vars

\* C18: freeing rule, for the frees through zswap_free_entry.  At the moment
\* a thread frees an entry, the refcount it read under the lock was 0 or
\* below and the entry is not reachable from the index.
C18_FreeStep ==
    \A t \in Threads :
        WbFree(t) \/ LoadFree(t) \/ InvalidateFree(t) =>
            /\ th[t].rc <= 0
            /\ ~InIndex(rb, th[t].ent)

C18_FreeingRule == [][C18_FreeStep]_vars

\* C19: a pin keeps the entry alive.  While a load or a writeback pass holds
\* its pin on an entry (from its zswap_entry_get to its zswap_entry_put),
\* the entry and its handle have not been freed.
Pinning(t) ==
    th[t].pc \in {"l_unlock1", "l_decomp", "l_put",
                  "w_unlock1", "w_entry", "w_inc", "w_lock2"}

C19_PinKeepsAlive ==
    \A t \in Threads : Pinning(t) => nfree[th[t].ent] = 0

\* C20: writeback refcount classification.  The value r that
\* zswap_writeback_entries reads after its one or two puts is one of 2, 1, 0,
\* -1, and r = 2 only after a failed writeback with a load's pin held, r = 1
\* only after a failed writeback with no load's pin and the entry still in
\* the index, r = 0 only after a successful writeback with the entry still in
\* the index and no other pin, r < 0 only after a successful writeback of an
\* entry that an invalidate has already erased.
LoadPins(e) ==
    \E u \in Threads :
        th[u].ent = e /\ th[u].pc \in {"l_unlock1", "l_decomp", "l_put"}

C20_Decision(t) ==
    LET e == th[t].ent
        r == th'[t].rc
        failed == th[t].wbret # 0
    IN /\ r \in {2, 1, 0, -1}
       /\ r = 2 => failed /\ LoadPins(e)
       /\ r = 1 => failed /\ ~LoadPins(e) /\ InIndex(rb, e)
       /\ r = 0 => ~failed /\ ~LoadPins(e) /\ InIndex(rb, e)
       /\ r < 0 => ~failed /\ ~InIndex(rb, e)

C20_Classification == [][\A t \in Threads : WbLock2(t) => C20_Decision(t)]_vars


\* C21: a loading entry is not selectable by writeback.  From the step in
\* which a load pins an entry and takes it off the LRU until that load's own
\* zswap_entry_put, the entry is not linked on the LRU.
Loading(t) == th[t].pc \in {"l_unlock1", "l_decomp", "l_put"}

C21_LoadingOffLru ==
    \A t \in Threads : Loading(t) => ~OnLru(lru, th[t].ent)


\* Overlapping loads: thread 1 stores, and both threads load, on either
\* offset.
NextLoads ==
    \/ FrontswapInit
    \/ \E o \in Offsets, p \in RacePages : StoreBegin(1, o, p, "ok")
    \/ StoreMalloc(1, TRUE)
    \/ StoreMap(1)
    \/ StoreStat(1)
    \/ \E t \in Threads, o \in Offsets : LoadFind(t, o)
    \/ \E t \in Threads : LoadDecompress(t)
    \/ \E t \in Threads : LoadPut(t)
    \/ \E t \in Threads : LoadFree(t)
    \/ \E t \in Threads : Unlock(t)

SpecLoads == Init /\ [][NextLoads]_vars


\* C22: LRU order.  A store links its entry at the LRU tail; a load hit that
\* keeps the entry links it at the LRU tail; each attempt of the writeback
\* pass takes the LRU head, which is the entry on the LRU whose last store or
\* load hit is the oldest; the pass frees at most one entry per attempt, at
\* most WRITEBACK_NR attempts, and ends at the first attempt that finds the
\* LRU empty.
AtTail(l, e) == l.prev[HEAD] = e /\ LruSeq(l) # << >> /\ LruSeq(l)[Len(LruSeq(l))] = e

Before(q, a, b) ==
    \E i, j \in 1..Len(q) : i <= j /\ q[i] = a /\ q[j] = b

C22_StoreAtTail ==
    \A t \in Threads : StoreMap(t) => AtTail(lru', th[t].new)

C22_LoadAtTail ==
    \A t \in Threads :
        LoadPut(t) /\ th'[t].rc # 0 => AtTail(lru', th[t].ent)

C22_PopOldest ==
    \A t \in Threads :
        WbPop(t) =>
            IF list_empty(lru, HEAD)
            THEN th'[t].pc = "s_retry"
            ELSE /\ th'[t].ent = LruSeq(lru)[1]
                 /\ \A x \in Entries :
                       OnLru(lru, x) => Before(gh.mru, th'[t].ent, x)

C22_FreedBounded ==
    \A t \in Threads :
        InWritebackPass(t) \/ th[t].pc = "s_retry" =>
            th[t].freed_nr <= th[t].i /\ th[t].i <= WRITEBACK_NR

C22_LruOrder ==
    /\ [][C22_StoreAtTail /\ C22_LoadAtTail /\ C22_PopOldest]_vars
    /\ []C22_FreedBounded


\* C23: LRU membership.  Whenever the lock is free, every entry linked on
\* the LRU is in the index, has refcount >= 1, has not been freed and is
\* linked once (the list is a ring through the head); and no list_add or
\* list_add_tail is applied to an entry that is on the LRU already or that is
\* not in the index.
LruRing(l) ==
    /\ LruWalk(l, l.next[HEAD], MaxEntries + 1) = LruWalk(l, l.next[HEAD], MaxEntries)
    /\ \A i, j \in 1..Len(LruSeq(l)) : LruSeq(l)[i] = LruSeq(l)[j] => i = j
    /\ \A n \in Nodes :
          n = HEAD \/ OnLru(l, n) => l.prev[l.next[n]] = n /\ l.next[l.prev[n]] = n

C23_Members ==
    lock = 0 =>
        /\ LruRing(lru)
        /\ \A e \in Entries :
              OnLru(lru, e) =>
                  InIndex(rb, e) /\ ent[e].refcount >= 1 /\ nfree[e] = 0

C23_Links ==
    \A t \in Threads :
        /\ WbLock2(t) /\ th'[t].rc = 1 =>
              ~OnLru(lru, th[t].ent) /\ InIndex(rb, th[t].ent)
        /\ LoadPut(t) /\ th'[t].rc # 0 =>
              ~OnLru(lru, th[t].ent) /\ InIndex(rb, th[t].ent)
        /\ StoreMap(t) => ~OnLru(lru, th[t].new)

C23_LruMembership == []C23_Members /\ [][C23_Links]_vars


\* C24: no double erase.  The rb_erase of zswap_writeback_entries (refcount
\* 0 after the puts) is applied to an entry that is in the index and is the
\* one found at its offset, and it takes no other entry out of the index; the
\* rb_erase of zswap_frontswap_invalidate_page is applied to an entry that is
\* in the index.
C24_WritebackErase ==
    \A t \in Threads :
        WbLock2(t) /\ th'[t].rc = 0 =>
            LET e == th[t].ent
            IN /\ InIndex(rb, e)
               /\ zswap_rb_search(rb, Off, ent[e].offset) = e
               /\ \A x \in Entries \ {e} : InIndex(rb, x) => InIndex(rb', x)

C24_InvalidateErase ==
    \A t \in Threads :
        (\E o \in Offsets : InvalidatePage(t, o)) /\ th'[t].pc = "i_unlock" =>
            InIndex(rb, th'[t].ent)

C24_NoDoubleErase == [][C24_WritebackErase /\ C24_InvalidateErase]_vars


\* One caller that stores with every fault, runs the writeback pass and
\* loads, with the scratch ring drained by stores of other CPUs.
RejectPages == {"PA", "PC"}

NextReject ==
    \/ FrontswapInit
    \/ \E o \in RaceOffsets, p \in RejectPages, f \in Faults : StoreBegin(1, o, p, f)
    \/ \E ok \in BOOLEAN : StoreMalloc(1, ok)
    \/ \E ok \in BOOLEAN : StoreRetry(1, ok)
    \/ StoreSaved(1)
    \/ StoreReject(1)
    \/ StoreMap(1)
    \/ StoreStat(1)
    \/ WbCheck(1)
    \/ WbPop(1)
    \/ \E nomem \in BOOLEAN : WbEntry(1, nomem, TRUE)
    \/ WbInc(1)
    \/ WbLock2(1)
    \/ WbFree(1)
    \/ \E o \in RaceOffsets : LoadFind(1, o)
    \/ LoadDecompress(1)
    \/ LoadPut(1)
    \/ Unlock(1)
    \/ PoolStoreBegin
    \/ PoolCheck("cpu")
    \/ PoolInc("cpu", FALSE)

SpecReject == InitSeq /\ [][NextReject]_vars


\* C25: a rejected store leaves the index alone.  The steps of a store that
\* is rejected before the writeback fallback (no area, no entry, codec error,
\* poor compression, no scratch frame) leave the index, the LRU, the record
\* of every entry other than the store's own new one, and the stored-pages
\* counter unchanged; and when such a store has returned, a page stored
\* earlier at its offset is still found there, with its bytes.
RejectStep(t) ==
    \/ /\ \E o \in Offsets, p \in Pages, f \in Faults : StoreBegin(t, o, p, f)
       /\ th'[t].pc \in {"s_reject", "done"}
    \/ StoreMalloc(t, FALSE) /\ tmpfree = 0
    \/ StoreReject(t) /\ ~th[t].tmp

C25_Frame ==
    \A t \in Threads :
        RejectStep(t) =>
            /\ rb'.root = rb.root
            /\ \A e \in Entries :
                  InIndex(rb, e) =>
                      /\ rb'.left[e] = rb.left[e] /\ rb'.right[e] = rb.right[e]
                      /\ rb'.parent[e] = rb.parent[e] /\ rb'.red[e] = rb.red[e]
            /\ LruSeq(lru') = LruSeq(lru)
            /\ lru'.prev[HEAD] = lru.prev[HEAD]
            /\ \A e \in Entries \ {th'[t].new, th[t].new} :
                  ent'[e] = ent[e] /\ nfree'[e] = nfree[e]
            /\ stored_pages' = stored_pages
            /\ \A o \in Offsets :
                  zswap_rb_search(rb', Off', o) = zswap_rb_search(rb, Off, o)

C25_EarlierStays ==
    \A t \in Threads :
        StoreDone(t) /\ th[t].ret # 0 /\ Owed(th[t].off) # None =>
            LET e == zswap_rb_search(rb, Off, th[t].off)
            IN /\ e # NULL
               /\ nfree[e] = 0
               /\ Decompress(ent[e].handle, ent[e].length) = Owed(th[t].off)

C25_RejectedStoreFrame == [][C25_Frame]_vars /\ []C25_EarlierStays

C25_Witness ==
    \E t \in Threads :
        /\ StoreDone(t) /\ th[t].ret = -E2BIG /\ th[t].page = "PC"
        /\ Owed(th[t].off) = "PA"
        /\ zswap_rb_search(rb, Off, th[t].off) # NULL


\* C26: the in-flight counter matches reality.  In every state
\* zswap_outstanding_writebacks is >= 0 and equals the number of writes that
\* zswap_writeback_entry has submitted and whose zswap_end_swap_write has
\* not run yet.
WritesInFlight == Cardinality({o \in Offsets : swp[o].st = "writing"})

C26_CounterMatches ==
    outstanding >= 0 /\ outstanding = WritesInFlight


\* C27: swap-cache page references are balanced.  The references on swap
\* cache pages obtained through zswap_get_swap_cache_page and not released
\* are those of the zswap_writeback_entry calls still running (between
\* __swap_writepage and page_cache_release); a call that has returned holds
\* none.
PageRefsHeld(o) ==
    Cardinality({t \in Threads : th[t].pc = "w_inc" /\ ent[th[t].ent].offset = o})

C27_PageRefsBalanced ==
    \A o \in Offsets : swp[o].ref = PageRefsHeld(o)
====
